---- MODULE Spec2Model ----
(***************************************************************************)
(* Model of hytera_homebrew_bridge/lib/hytera_protocols.py: the P2P        *)
(* control protocol, the RDAC identification handshake and the datagram    *)
(* classifier used by the DMR listener.                                    *)
(*                                                                         *)
(* Datagrams are sequences of bytes (0..255).  Python indexes from 0, TLA+ *)
(* from 1: Python's data[i] is data[i + 1] here; the helpers At, Slice and *)
(* SetAt take Python indexes.                                              *)
(***************************************************************************)
EXTENDS Integers, Sequences, FiniteSets, TLC

VARIABLES settings, step, callbacks, last, sent, raised, wrote, parsed, regHandled,
          script

vars ==
    <<settings, step, callbacks, last, sent, raised, wrote, parsed, regHandled,
      script>>

----------------------------------------------------------------------------
(* Bounds of the model.                                                    *)

\* datagrams are up to MaxExtra bytes longer than the last offset a handler reads
MaxExtra == 1
\* datagrams are no longer delivered once this many completion callbacks are scheduled
MaxCallbacks == 2

----------------------------------------------------------------------------
(* Python bytes / bytearray primitives.                                    *)

Min(a, b) == IF a < b THEN a ELSE b

\* data[i]
At(data, i) == data[i + 1]

\* data[a:b]; a slice never raises, it is cut to the bytes that exist
Slice(data, a, b) ==
    LET hi == Min(b, Len(data))
    IN  IF a >= hi THEN <<>> ELSE [i \in 1..(hi - a) |-> data[a + i]]

\* data[i] = v on a bytearray of sufficient length
SetAt(data, i, v) == [data EXCEPT ![i + 1] = v]

\* bytes(n) with an int argument: n zero bytes
ZeroBytes(n) == [i \in 1..n |-> 0]

\* A Python int of unbounded size is modelled by its base-256 digits, least
\* significant first, without high-order zero digits; 0 is the empty sequence.
\* Two ints are equal exactly when their digit sequences are.
Zero == <<>>

RECURSIVE DropHighZeros(_)
DropHighZeros(b) ==
    IF b # <<>> /\ b[Len(b)] = 0 THEN DropHighZeros(SubSeq(b, 1, Len(b) - 1)) ELSE b

\* int.from_bytes(b, byteorder="little")
FromBytesLittle(b) == DropHighZeros(b)

\* n.to_bytes(2, "little"), n in 0..65535
ToBytes2Little(n) == <<n % 256, (n \div 256) % 256>>

Packet(data, address) == [data |-> data, address |-> address]

\* the & of two bytes
RECURSIVE BitAnd(_, _)
BitAnd(a, b) ==
    IF a = 0 \/ b = 0 THEN 0
    ELSE ((a % 2) * (b % 2)) + (2 * BitAnd(a \div 2, b \div 2))

----------------------------------------------------------------------------
(* HyteraP2PProtocol                                                       *)

COMMAND_PREFIX == <<80, 50, 80>>
PING_PREFIX == <<10, 0, 0, 0, 20>>

PACKET_TYPE_REQUEST_REGISTRATION == 16
PACKET_TYPE_REQUEST_DMR_STARTUP == 17
PACKET_TYPE_REQUEST_RDAC_STARTUP == 18
KNOWN_PACKET_TYPES ==
    { PACKET_TYPE_REQUEST_DMR_STARTUP,
      PACKET_TYPE_REQUEST_RDAC_STARTUP,
      PACKET_TYPE_REQUEST_REGISTRATION }

packet_is_command(data) == Slice(data, 0, 3) = COMMAND_PREFIX

packet_is_ping(data) == Slice(data, 4, 9) = PING_PREFIX

command_get_type(data) == IF Len(data) > 20 THEN At(data, 20) ELSE 0

\* The result of one handler call: the settings it leaves, the packets it
\* handed to transport.sendto in order, whether it ended in an exception,
\* and the settings attributes it assigned.
Effect(s, out, exc, w) == [settings |-> s, sent |-> out, raised |-> exc, wrote |-> w]

\* SNMP().walk_ip(address, settings): leaves the walk's result in
\* settings.hytera_snmp_data (TRUE: data was collected, FALSE: nothing)
walk_ip(s, found) == [s EXCEPT !.hytera_snmp_data = found]

\* data[4] += 1 on a bytearray raises ValueError when the byte is 255
IncrementRaises(data) == At(data, 4) = 255

\* handle_registration that also records byte 4 as the repeater id
handle_registration_sets_id(s, data, address, found) ==
    IF Len(data) <= 15 \/ IncrementRaises(data)
    THEN Effect(s, <<>>, TRUE, {})
    ELSE LET d1 == SetAt(data, 3, 80)
             d2 == SetAt(d1, 4, At(d1, 4) + 1)
             d3 == SetAt(d2, 13, 1)
             d4 == SetAt(d3, 14, 1)
             d5 == SetAt(d4, 15, 90)
             d6 == Append(d5, 1)
             s1 == IF s.snmp_enabled THEN walk_ip(s, found) ELSE s
         IN  Effect([s1 EXCEPT !.hytera_is_registered = TRUE,
                               !.hytera_repeater_id = <<At(d2, 4)>>],
                    <<Packet(d6, address)>>,
                    FALSE,
                    {"hytera_repeater_id", "hytera_is_registered"})

handle_registration(s, data, address, found) ==
    IF Len(data) <= 15 \/ IncrementRaises(data)
    THEN Effect(s, <<>>, TRUE, {})
    ELSE LET d1 == SetAt(data, 3, 80)
             d2 == SetAt(d1, 4, At(d1, 4) + 1)
             d3 == SetAt(d2, 13, 1)
             d4 == SetAt(d3, 14, 1)
             d5 == SetAt(d4, 15, 90)
             d6 == Append(d5, 1)
             s1 == IF s.snmp_enabled THEN walk_ip(s, found) ELSE s
         IN  Effect([s1 EXCEPT !.hytera_is_registered = TRUE],
                    <<Packet(d6, address)>>,
                    FALSE,
                    IF s.snmp_enabled
                    THEN {"hytera_snmp_data", "hytera_is_registered"}
                    ELSE {"hytera_is_registered"})

get_redirect_packet(data, target_port) ==
    LET d0 == Slice(data, 0, Len(data) - 1)
        d1 == SetAt(d0, 4, 11)
        d2 == SetAt(d1, 12, 255)
        d3 == SetAt(d2, 13, 255)
        d4 == SetAt(d3, 14, 1)
        d5 == SetAt(d4, 15, 0)
    IN  d5 \o <<255, 1>> \o ToBytes2Little(target_port)

\* the packet handle_rdac_request and handle_dmr_request send first
AcceptPacket(data) ==
    LET d1 == SetAt(data, 4, At(data, 4) + 1)
        d2 == SetAt(d1, 13, 1)
    IN  Append(d2, 1)

\* handle_rdac_request without its registration check
handle_rdac_request_unchecked(s, data, address) ==
    LET response_address == <<address[1], s.p2p_port>>
        accept == AcceptPacket(data)
    IN  IF IncrementRaises(data)
        THEN Effect(s, <<>>, TRUE, {})
        ELSE Effect(s,
                    <<Packet(accept, response_address),
                      Packet(get_redirect_packet(accept, s.rdac_port),
                             response_address)>>,
                    FALSE, {})

handle_rdac_request(s, data, address) ==
    IF ~s.hytera_is_registered
    THEN Effect(s, <<Packet(ZeroBytes(0), address)>>, FALSE, {})
    ELSE IF Len(data) <= 13 \/ IncrementRaises(data)
    THEN Effect(s, <<>>, TRUE, {})
    ELSE LET response_address == <<address[1], s.p2p_port>>
             accept == AcceptPacket(data)
         IN  IF Len(accept) - 1 <= 15
             THEN Effect(s, <<Packet(accept, response_address)>>, TRUE, {})
             ELSE Effect(s,
                         <<Packet(accept, response_address),
                           Packet(get_redirect_packet(accept, s.rdac_port),
                                  response_address)>>,
                         FALSE, {})

handle_dmr_request(s, data, address) ==
    IF ~s.hytera_is_registered
    THEN Effect(s, <<Packet(ZeroBytes(0), address)>>, FALSE, {})
    ELSE IF Len(data) <= 13 \/ IncrementRaises(data)
    THEN Effect(s, <<>>, TRUE, {})
    ELSE LET response_address == <<address[1], s.p2p_port>>
             accept == AcceptPacket(data)
         IN  IF Len(accept) - 1 <= 15
             THEN Effect(s, <<Packet(accept, response_address)>>, TRUE, {})
             ELSE Effect(s,
                         <<Packet(accept, response_address),
                           Packet(get_redirect_packet(accept, s.dmr_port),
                                  response_address)>>,
                         FALSE, {})

handle_ping(s, data, address) ==
    IF ~s.hytera_is_registered
    THEN Effect(s, <<Packet(ZeroBytes(0), address)>>, FALSE, {})
    ELSE IF Len(data) <= 14
    THEN Effect(s, <<>>, TRUE, {})
    ELSE Effect(s,
                <<Packet(SetAt(SetAt(data, 12, 255), 14, 1), address)>>,
                FALSE, {})

\* HyteraP2PProtocol.datagram_received; unknown packets are logged only
P2P_datagram_received(s, data, address, found) ==
    LET packet_type == command_get_type(data)
    IN  IF packet_is_command(data)
        THEN IF packet_type = PACKET_TYPE_REQUEST_REGISTRATION
             THEN handle_registration(s, data, address, found)
             ELSE IF packet_type = PACKET_TYPE_REQUEST_RDAC_STARTUP
             THEN handle_rdac_request(s, data, address)
             ELSE IF packet_type = PACKET_TYPE_REQUEST_DMR_STARTUP
             THEN handle_dmr_request(s, data, address)
             ELSE Effect(s, <<>>, FALSE, {})
        ELSE IF packet_is_ping(data)
        THEN handle_ping(s, data, address)
        ELSE Effect(s, <<>>, FALSE, {})

----------------------------------------------------------------------------
(* Text extraction of step6:                                               *)
(*   bytes.decode("utf_16_le").encode("utf-8").strip(b"\x00").decode("utf-8") *)
(* A str is modelled as its sequence of code points.                       *)

IsHighSurrogate(u) == u \in 55296..56319
IsLowSurrogate(u) == u \in 56320..57343

\* the 16-bit little-endian code units of an even-length byte string
Utf16Units(b) == [k \in 1..(Len(b) \div 2) |-> b[2 * k - 1] + 256 * b[2 * k]]

RECURSIVE UnitsValid(_)
UnitsValid(u) ==
    IF u = <<>> THEN TRUE
    ELSE IF IsHighSurrogate(u[1])
    THEN Len(u) >= 2 /\ IsLowSurrogate(u[2]) /\ UnitsValid(SubSeq(u, 3, Len(u)))
    ELSE IF IsLowSurrogate(u[1]) THEN FALSE
    ELSE UnitsValid(Tail(u))

RECURSIVE UnitsToCodePoints(_)
UnitsToCodePoints(u) ==
    IF u = <<>> THEN <<>>
    ELSE IF IsHighSurrogate(u[1])
    THEN <<65536 + (u[1] - 55296) * 1024 + (u[2] - 56320)>>
             \o UnitsToCodePoints(SubSeq(u, 3, Len(u)))
    ELSE <<u[1]>> \o UnitsToCodePoints(Tail(u))

\* bytes.decode("utf_16_le") raises UnicodeDecodeError on an odd number of
\* bytes (truncated data) and on an unpaired surrogate
Utf16LeDecodeRaises(b) == Len(b) % 2 = 1 \/ ~UnitsValid(Utf16Units(b))

Utf16LeDecode(b) == UnitsToCodePoints(Utf16Units(b))

Utf8EncodeOne(c) ==
    IF c < 128 THEN <<c>>
    ELSE IF c < 2048 THEN <<192 + (c \div 64), 128 + (c % 64)>>
    ELSE IF c < 65536
    THEN <<224 + (c \div 4096), 128 + ((c \div 64) % 64), 128 + (c % 64)>>
    ELSE <<240 + (c \div 262144), 128 + ((c \div 4096) % 64),
           128 + ((c \div 64) % 64), 128 + (c % 64)>>

RECURSIVE Utf8Encode(_)
Utf8Encode(cps) ==
    IF cps = <<>> THEN <<>> ELSE Utf8EncodeOne(cps[1]) \o Utf8Encode(Tail(cps))

RECURSIVE LStripNul(_)
LStripNul(b) == IF b # <<>> /\ b[1] = 0 THEN LStripNul(Tail(b)) ELSE b

RECURSIVE RStripNul(_)
RStripNul(b) ==
    IF b # <<>> /\ b[Len(b)] = 0 THEN RStripNul(SubSeq(b, 1, Len(b) - 1)) ELSE b

\* bytes.strip(b"\x00"): NUL bytes are removed at both ends
StripNul(b) == RStripNul(LStripNul(b))

RECURSIVE Utf8Decode(_)
Utf8Decode(b) ==
    IF b = <<>> THEN <<>>
    ELSE IF b[1] < 128 THEN <<b[1]>> \o Utf8Decode(Tail(b))
    ELSE IF b[1] < 224
    THEN <<(b[1] - 192) * 64 + (b[2] - 128)>> \o Utf8Decode(SubSeq(b, 3, Len(b)))
    ELSE IF b[1] < 240
    THEN <<(b[1] - 224) * 4096 + (b[2] - 128) * 64 + (b[3] - 128)>>
             \o Utf8Decode(SubSeq(b, 4, Len(b)))
    ELSE <<(b[1] - 240) * 262144 + (b[2] - 128) * 4096
               + (b[3] - 128) * 64 + (b[4] - 128)>>
             \o Utf8Decode(SubSeq(b, 5, Len(b)))

\* the whole conversion chain, applied to a slice that decodes
ExtractText(b) == Utf8Decode(StripNul(Utf8Encode(Utf16LeDecode(b))))

----------------------------------------------------------------------------
(* HyteraRDACProtocol                                                      *)

STEP0_REQUEST ==
    << \h7E, \h04, \h00, \hFE, \h20, \h10, \h00, \h00, \h00, \h0C, \h60, \hE1 >>

STEP0_RESPONSE ==
    << \h7E, \h04, \h00, \hFD >>

STEP1_REQUEST ==
    << \h7E, \h04, \h00, \h00, \h20, \h10, \h00, \h01, \h00, \h18, \h9B, \h60,
       \h02, \h04, \h00, \h05, \h00, \h64, \h00, \h00, \h00, \h01, \hC4, \h03 >>

STEP1_RESPONSE ==
    << \h7E, \h04, \h00, \h10 >>

STEP2_RESPONSE ==
    << \h7E, \h04, \h00, \h00 >>

STEP3_REQUEST ==
    << \h7E, \h04, \h00, \h10, \h20, \h10, \h00, \h01, \h00, \h0C, \h61, \hCE >>

STEP3_RESPONSE ==
    << \h7E, \h04, \h00, \h00 >>

STEP4_REQUEST_1 ==
    << \h7E, \h04, \h00, \h10, \h20, \h10, \h00, \h02, \h00, \h0C, \h61, \hCD >>

STEP4_REQUEST_2 ==
    << \h7E, \h04, \h00, \h00, \h20, \h10, \h00, \h02, \h00, \h19, \h58, \hA0,
       \h02, \hD4, \h02, \h06, \h00, \h64, \h00, \h00, \h00, \h02, \h00, \hF0,
       \h03 >>

STEP4_RESPONSE_1 ==
    << \h7E, \h04, \h00, \h10 >>

STEP4_RESPONSE_2 ==
    << \h7E, \h04, \h00, \h00 >>

STEP6_REQUEST_1 ==
    << \h7E, \h04, \h00, \h10, \h20, \h10, \h00, \h03, \h00, \h0C, \h61, \hCC >>

STEP6_REQUEST_2 ==
    << \h7E, \h04, \h00, \h00, \h20, \h10, \h00, \h03, \h00, \h19, \h73, \h84,
       \h02, \hD6, \h82, \h06, \h00, \h00, \h64, \h00, \h00, \h00, \h02, \h6E,
       \h03 >>

STEP6_RESPONSE ==
    << \h7E, \h04, \h00, \h10 >>

STEP7_REQUEST ==
    << \h7E, \h04, \h00, \h00, \h20, \h10, \h00, \h04, \h00, \h19, \h57, \h9F,
       \h02, \hD4, \h02, \h06, \h00, \h64, \h00, \h00, \h00, \h02, \h01, \hEF,
       \h03 >>

STEP7_RESPONSE_1 ==
    << \h7E, \h04, \h00, \h10 >>

STEP7_RESPONSE_2 ==
    << \h7E, \h04, \h00, \h00 >>

STEP10_REQUEST ==
    << \h7E, \h04, \h00, \h00, \h20, \h10, \h00, \h15, \h00, \h18, \h9C, \h4B,
       \h02, \h05, \h00, \h05, \h00, \h64, \h00, \h00, \h00, \h01, \hC3, \h03 >>

STEP10_RESPONSE_1 ==
    << \h7E, \h04, \h00, \h10 >>

STEP10_RESPONSE_2 ==
    << \h7E, \h04, \h00, \h00 >>

STEP12_REQUEST_1 ==
    << \h7E, \h04, \h00, \h10, \h20, \h10, \h00, \h15, \h00, \h0C, \h61, \hBA >>

STEP12_REQUEST_2 ==
    << \h7E, \h04, \h00, \hFB, \h20, \h10, \h00, \h16, \h00, \h0C, \h60, \hCE >>

STEP12_RESPONSE ==
    << \h7E, \h04, \h00, \hFA >>

\* The state of one HyteraRDACProtocol instance together with the shared
\* settings: self.settings, self.step and the number of times the completion
\* callback was handed to create_task.
Self(s, st, cb) == [settings |-> s, step |-> st, callbacks |-> cb]

\* The result of one step handler call.
RdacEffect(self, out, exc, w) ==
    [settings |-> self.settings, step |-> self.step, callbacks |-> self.callbacks,
     sent |-> out, raised |-> exc, wrote |-> w]

\* data[: len(prefix)] == prefix
HasPrefix(data, prefix) == Slice(data, 0, Len(prefix)) = prefix

\* step0 that sends the request but leaves the step where it is
step0_no_advance(self, data, address) ==
    RdacEffect(self, <<Packet(STEP0_REQUEST, address)>>, FALSE, {})

step0(self, data, address) ==
    RdacEffect([self EXCEPT !.step = 1], <<Packet(STEP0_REQUEST, address)>>, FALSE, {})

step1(self, data, address) ==
    IF HasPrefix(data, STEP0_RESPONSE)
    THEN RdacEffect([self EXCEPT !.step = 2],
                    <<Packet(STEP1_REQUEST, address)>>, FALSE, {})
    ELSE RdacEffect(self, <<>>, FALSE, {})

step2(self, data, address) ==
    IF HasPrefix(data, STEP1_RESPONSE)
    THEN RdacEffect([self EXCEPT !.step = 3], <<>>, FALSE, {})
    ELSE RdacEffect(self, <<>>, FALSE, {})

step3(self, data, address) ==
    IF HasPrefix(data, STEP2_RESPONSE)
    THEN RdacEffect([self EXCEPT
                        !.settings.hytera_repeater_id =
                            FromBytesLittle(Slice(data, 18, 21)),
                        !.step = 4],
                    <<Packet(STEP3_REQUEST, address)>>, FALSE,
                    {"hytera_repeater_id"})
    ELSE RdacEffect(self, <<>>, FALSE, {})

\* step4 comparing with the response of the next step
step4_wrong_prefix(self, data, address) ==
    IF HasPrefix(data, STEP4_RESPONSE_1)
    THEN RdacEffect([self EXCEPT !.step = 5],
                    <<Packet(STEP4_REQUEST_1, address),
                      Packet(STEP4_REQUEST_2, address)>>, FALSE, {})
    ELSE RdacEffect(self, <<>>, FALSE, {})

step4(self, data, address) ==
    IF HasPrefix(data, STEP3_RESPONSE)
    THEN RdacEffect([self EXCEPT !.step = 5],
                    <<Packet(STEP4_REQUEST_1, address),
                      Packet(STEP4_REQUEST_2, address)>>, FALSE, {})
    ELSE RdacEffect(self, <<>>, FALSE, {})

\* step5 that restarts the handshake on a response it does not expect
step5_reset_on_mismatch(self, data, address) ==
    IF HasPrefix(data, STEP4_RESPONSE_1)
    THEN RdacEffect([self EXCEPT !.step = 6], <<>>, FALSE, {})
    ELSE RdacEffect([self EXCEPT !.step = 0], <<>>, FALSE, {})

\* step5 without its prefix check
step5_unchecked(self, data, address) ==
    RdacEffect([self EXCEPT !.step = 6], <<>>, FALSE, {})

step5(self, data, address) ==
    IF HasPrefix(data, STEP4_RESPONSE_1)
    THEN RdacEffect([self EXCEPT !.step = 6], <<>>, FALSE, {})
    ELSE RdacEffect(self, <<>>, FALSE, {})

\* The four assignments of step6 run in the order callsign, hardware,
\* firmware, serial number; a slice that does not decode raises and leaves
\* the assignments already made in place.
step6(self, data, address) ==
    IF ~HasPrefix(data, STEP4_RESPONSE_2)
    THEN RdacEffect(self, <<>>, FALSE, {})
    ELSE LET callsign == Slice(data, 88, 108)
             hardware == Slice(data, 120, 184)
             firmware == Slice(data, 56, 88)
             serial == Slice(data, 184, 216)
             self1 == [self EXCEPT
                          !.settings.hytera_callsign = ExtractText(callsign)]
             self2 == [self1 EXCEPT
                          !.settings.hytera_hardware = ExtractText(hardware)]
             self3 == [self2 EXCEPT
                          !.settings.hytera_firmware = ExtractText(firmware)]
             self4 == [self3 EXCEPT
                          !.settings.hytera_serial_number = ExtractText(serial)]
         IN  IF Utf16LeDecodeRaises(callsign)
             THEN RdacEffect(self, <<>>, TRUE, {})
             ELSE IF Utf16LeDecodeRaises(hardware)
             THEN RdacEffect(self1, <<>>, TRUE, {"hytera_callsign"})
             ELSE IF Utf16LeDecodeRaises(firmware)
             THEN RdacEffect(self2, <<>>, TRUE,
                             {"hytera_callsign", "hytera_hardware"})
             ELSE IF Utf16LeDecodeRaises(serial)
             THEN RdacEffect(self3, <<>>, TRUE,
                             {"hytera_callsign", "hytera_hardware",
                              "hytera_firmware"})
             ELSE RdacEffect([self4 EXCEPT !.step = 7],
                             <<Packet(STEP6_REQUEST_1, address),
                               Packet(STEP6_REQUEST_2, address)>>, FALSE,
                             {"hytera_callsign", "hytera_hardware",
                              "hytera_firmware", "hytera_serial_number"})

step7(self, data, address) ==
    IF HasPrefix(data, STEP6_RESPONSE)
    THEN RdacEffect([self EXCEPT !.step = 8],
                    <<Packet(STEP7_REQUEST, address)>>, FALSE, {})
    ELSE RdacEffect(self, <<>>, FALSE, {})

\* step8 advancing by one
step8_to_9(self, data, address) ==
    IF HasPrefix(data, STEP7_RESPONSE_1)
    THEN RdacEffect([self EXCEPT !.step = 9], <<>>, FALSE, {})
    ELSE RdacEffect(self, <<>>, FALSE, {})

step8(self, data, address) ==
    IF HasPrefix(data, STEP7_RESPONSE_1)
    THEN RdacEffect([self EXCEPT !.step = 10], <<>>, FALSE, {})
    ELSE RdacEffect(self, <<>>, FALSE, {})

\* data[26] raises IndexError on a datagram of 26 bytes or fewer
step10(self, data, address) ==
    IF ~HasPrefix(data, STEP7_RESPONSE_2)
    THEN RdacEffect(self, <<>>, FALSE, {})
    ELSE IF Len(data) <= 26
    THEN RdacEffect(self, <<>>, TRUE, {})
    ELSE RdacEffect([self EXCEPT
                        !.settings.hytera_repeater_mode = At(data, 26),
                        !.settings.hytera_tx_freq =
                            FromBytesLittle(Slice(data, 29, 33)),
                        !.settings.hytera_rx_freq =
                            FromBytesLittle(Slice(data, 33, 37)),
                        !.step = 11],
                    <<Packet(STEP10_REQUEST, address)>>, FALSE,
                    {"hytera_repeater_mode", "hytera_tx_freq", "hytera_rx_freq"})

step11(self, data, address) ==
    IF HasPrefix(data, STEP10_RESPONSE_1)
    THEN RdacEffect([self EXCEPT !.step = 12], <<>>, FALSE, {})
    ELSE RdacEffect(self, <<>>, FALSE, {})

step12(self, data, address) ==
    IF HasPrefix(data, STEP10_RESPONSE_2)
    THEN RdacEffect([self EXCEPT !.step = 13],
                    <<Packet(STEP12_REQUEST_1, address),
                      Packet(STEP12_REQUEST_2, address)>>, FALSE, {})
    ELSE RdacEffect(self, <<>>, FALSE, {})

\* create_task(self.rdac_completed_callback) schedules the callback
step13(self, data, address) ==
    IF HasPrefix(data, STEP12_RESPONSE)
    THEN RdacEffect([self EXCEPT !.step = 14, !.callbacks = @ + 1],
                    <<>>, FALSE, {})
    ELSE RdacEffect(self, <<>>, FALSE, {})

step14(self, data, address) == RdacEffect(self, <<>>, FALSE, {})

\* the steps n for which the class defines a method step<n>
StepHandlers == (0..14) \ {9}

\* getattr(self, "step%d" % self.step)(data, addr); a step without a method
\* raises AttributeError
StepDispatch(self, data, address) ==
    CASE self.step = 0 -> step0(self, data, address)
      [] self.step = 1 -> step1(self, data, address)
      [] self.step = 2 -> step2(self, data, address)
      [] self.step = 3 -> step3(self, data, address)
      [] self.step = 4 -> step4(self, data, address)
      [] self.step = 5 -> step5(self, data, address)
      [] self.step = 6 -> step6(self, data, address)
      [] self.step = 7 -> step7(self, data, address)
      [] self.step = 8 -> step8(self, data, address)
      [] self.step = 10 -> step10(self, data, address)
      [] self.step = 11 -> step11(self, data, address)
      [] self.step = 12 -> step12(self, data, address)
      [] self.step = 13 -> step13(self, data, address)
      [] self.step = 14 -> step14(self, data, address)
      [] OTHER -> RdacEffect(self, <<>>, TRUE, {})

\* datagram_received that takes a datagram of one byte for a reset at
\* step 14 as well
RDAC_datagram_received_reset_at_14(self, data, addr) ==
    IF Len(data) = 1
    THEN step0([self EXCEPT !.step = 0], data, addr)
    ELSE IF self.step = 14
    THEN RdacEffect(self, <<>>, FALSE, {})
    ELSE StepDispatch(self, data, addr)

\* HyteraRDACProtocol.datagram_received
RDAC_datagram_received(self, data, addr) ==
    IF Len(data) = 1 /\ self.step # 14
    THEN step0([self EXCEPT !.step = 0], data, addr)
    ELSE IF Len(data) # 1 /\ self.step = 14
    THEN RdacEffect(self, <<>>, FALSE, {})
    ELSE IF Len(data) = 1 /\ self.step = 14
    THEN IF At(data, 0) = 0
         THEN RdacEffect(self, <<Packet(ZeroBytes(65), addr)>>, FALSE, {})
         ELSE RdacEffect(self, <<>>, FALSE, {})
    ELSE StepDispatch(self, data, addr)

----------------------------------------------------------------------------
(* parse_hytera_data: the codec class the datagram is handed to            *)

\* parse_hytera_data taking only the empty datagram for a heartbeat
parse_hytera_data_empty_only(bytedata) ==
    IF Len(bytedata) < 1 THEN "IpSiteConnectHeartbeat"
    ELSE IF Slice(bytedata, 0, 2) = <<\h32, \h42>>
    THEN "HyteraSimpleTransportReliabilityProtocol"
    ELSE IF Slice(bytedata, 0, 1) = <<\h7E>> THEN "HyteraRadioNetworkProtocol"
    ELSE "HyteraDmrApplicationProtocol"

parse_hytera_data(bytedata) ==
    IF Len(bytedata) < 2 THEN "IpSiteConnectHeartbeat"
    ELSE IF Slice(bytedata, 0, 2) = <<\h32, \h42>>
    THEN "HyteraSimpleTransportReliabilityProtocol"
    ELSE IF Slice(bytedata, 0, 1) = <<\h7E>> THEN "HyteraRadioNetworkProtocol"
    ELSE IF BitAnd(At(bytedata, 0), \h80) = \h80
            /\ BitAnd(At(bytedata, 0), \hC0) = 2
    THEN "RealTimeTransportProtocol"
    ELSE IF \/ FromBytesLittle(Slice(bytedata, 0, 8)) = Zero
            \/ Slice(bytedata, 0, 4) = <<90, 90, 90, 90>>
            \/ Slice(bytedata, 20, 22) = <<\h11, \h11>>
    THEN IF Slice(bytedata, 5, 9) = <<\h00, \h00, \h00, \h14>>
         THEN "IpSiteConnectHeartbeat"
         ELSE "IpSiteConnectProtocol"
    ELSE "HyteraDmrApplicationProtocol"

----------------------------------------------------------------------------
(* The datagrams delivered to the three endpoints.                         *)

\* p2p_port, rdac_port and dmr_port as configured
ConfiguredPorts == [p2p_port |-> 50000, rdac_port |-> 50002, dmr_port |-> 50001]

\* source addresses: one on the configured P2P port, one on another port
Addresses == {<<"10.0.0.1", 50000>>, <<"10.0.0.2", 40001>>}

\* the source address of the datagrams of the RDAC and the DMR endpoint
PeerAddresses == {<<"10.0.0.2", 40001>>}

\* A datagram for the P2P endpoint: the command prefix or not, byte 4,
\* bytes 5..8 as in a ping or not, the packet type at byte 20.
MkP2P(len, cmd, b4, ping, ty) ==
    [i \in 1..len |->
        IF i <= 3 THEN (IF cmd THEN COMMAND_PREFIX[i] ELSE 0)
        ELSE IF i = 4 THEN 0
        ELSE IF i = 5 THEN b4
        ELSE IF i <= 9 THEN (IF ping THEN PING_PREFIX[i - 4] ELSE 0)
        ELSE IF i = 21 THEN ty
        ELSE 7]

\* commands of every type with byte 4 ordinary, ping-like and 0xFF, a
\* command too short to carry a type, pings of every critical length, and
\* datagrams that are neither
P2PData ==
    { MkP2P(21 + k, TRUE, b4, b4 = \h0A, ty) :
        k \in 0..MaxExtra, b4 \in {\h05, \h0A, \hFF},
        ty \in {\h10, \h11, \h12, \h13} }
    \cup { MkP2P(15, TRUE, \h05, FALSE, 0) }
    \cup { MkP2P(len, FALSE, \h0A, TRUE, \h10) : len \in {9, 14, 15, 21} }
    \cup { MkP2P(len, FALSE, \h05, TRUE, \h10) : len \in {0, 15} }

\* the payload of an RDAC response after its 4-byte prefix: UTF-16LE "A"s,
\* or the same with unpaired surrogates from the first text field on
Fill(fill, i) ==
    IF fill = "surrogate" /\ i >= 56 THEN \hD8
    ELSE IF i % 2 = 0 THEN \h41 ELSE 0

\* A datagram for the RDAC endpoint: 7E 04 00, byte 3, then the payload.
MkRDAC(len, b3, fill) ==
    [i \in 1..len |->
        IF i <= 3 THEN <<\h7E, \h04, \h00>>[i]
        ELSE IF i = 4 THEN b3
        ELSE Fill(fill, i - 1)]

\* every response prefix at the lengths around the offsets the handlers
\* read, a prefix no step expects, and datagrams of 0 and 1 bytes
RDACData ==
    { MkRDAC(len, \h00, "text") : len \in {4, 26, 27} }
    \cup { MkRDAC(len, \h00, fill) :
             len \in {57, 58} \cup {216 + k : k \in 0..MaxExtra},
             fill \in {"text", "surrogate"} }
    \cup { MkRDAC(len, b3, "text") :
             len \in {4, 27}, b3 \in {\hFD, \h10, \hFA, \h55} }
    \cup { <<>>, <<\h7E>>, <<\h00>>, <<\h01>> }

\* A datagram for the DMR endpoint: up to two leading bytes, a filler, and
\* optionally the heartbeat bytes 5..8 and the bytes 0x11,0x11 at 20..21.
MkDMR(head, len, fill, hb, isc) ==
    [i \in 1..len |->
        IF i <= Len(head) THEN head[i]
        ELSE IF hb /\ i \in 6..9 THEN <<\h00, \h00, \h00, \h14>>[i - 5]
        ELSE IF isc /\ i \in 21..22 THEN \h11
        ELSE fill]

DMRHeads ==
    {<<>>}
    \cup { <<a>> : a \in {\h00, \h32, \h42, \h7E, \h80, \h82, \h02, \h5A} }
    \cup { <<a, b>> : a \in {\h00, \h32, \h42, \h7E, \h80, \h82, \h02, \h5A},
                      b \in {\h00, \h42, \h5A} }

DMRLens == {0, 1, 2, 7, 8, 9} \cup {22 + k : k \in 0..MaxExtra}

DMRData ==
    { MkDMR(head, len, fill, hb, isc) :
        head \in DMRHeads, len \in DMRLens, fill \in {\h00, \h5A},
        hb \in BOOLEAN, isc \in BOOLEAN }

\* The datagrams of the specification in which the three endpoints run
\* side by side on one BridgeSettings: one of each kind.
BridgeP2PData ==
    { MkP2P(21, TRUE, b4, FALSE, ty) : b4 \in {\h05, \hFF}, ty \in {\h10, \h12} }
    \cup { MkP2P(21, TRUE, \h05, FALSE, \h11), MkP2P(21, FALSE, \h0A, TRUE, \h10) }

BridgeRDACData ==
    { MkRDAC(27, b3, "text") : b3 \in {\hFD, \h10, \h00, \hFA} }
    \cup { MkRDAC(216, \h00, "text"), MkRDAC(57, \h00, "text"), <<\h00>> }

BridgeDMRData ==
    { MkDMR(head, 22, \h00, FALSE, FALSE) : head \in {<<\h32, \h42>>, <<\h00>>} }

----------------------------------------------------------------------------
(* The state machine.                                                      *)
(*   settings    the shared BridgeSettings                                 *)
(*   step        HyteraRDACProtocol.step                                   *)
(*   callbacks   how often rdac_completed_callback was scheduled           *)
(*   last        the datagram handled last, with the settings and the step *)
(*               it was handled in                                         *)
(*   sent        the packets the last handler passed to transport.sendto   *)
(*   raised      whether the last handler ended in an exception            *)
(*   wrote       the settings attributes the last handler assigned         *)
(*   parsed      the codec class parse_hytera_data chose for the last      *)
(*               datagram of the DMR endpoint                              *)
(*   regHandled  whether handle_registration has been called so far        *)
(*   script      how far the RDAC endpoint has been fed, since the last     *)
(*               reset, the responses of the handshake in their order, and  *)
(*               the requests it has sent since that reset                  *)

\* the response prefix the handler of step n compares the datagram with
ExpectedResponse(n) ==
    CASE n = 1 -> STEP0_RESPONSE
      [] n = 2 -> STEP1_RESPONSE
      [] n = 3 -> STEP2_RESPONSE
      [] n = 4 -> STEP3_RESPONSE
      [] n = 5 -> STEP4_RESPONSE_1
      [] n = 6 -> STEP4_RESPONSE_2
      [] n = 7 -> STEP6_RESPONSE
      [] n = 8 -> STEP7_RESPONSE_1
      [] n = 10 -> STEP7_RESPONSE_2
      [] n = 11 -> STEP10_RESPONSE_1
      [] n = 12 -> STEP10_RESPONSE_2
      [] n = 13 -> STEP12_RESPONSE

\* the steps of the handshake after step 0, in the order they are taken
ScriptSteps == <<1, 2, 3, 4, 5, 6, 7, 8, 10, 11, 12, 13>>

\* the number of leading bytes from which the handler of step n extracts
\* fields of a matching response (none but in steps 3, 6 and 10)
BytesRead(n) ==
    CASE n = 3 -> 21
      [] n = 6 -> 216
      [] n = 10 -> 37
      [] OTHER -> 0

\* data is the response of position pos + 1 of the handshake, long enough
\* for the fields its handler extracts
NextInScript(pos, data) ==
    /\ pos \in 0..(Len(ScriptSteps) - 1)
    /\ HasPrefix(data, ExpectedResponse(ScriptSteps[pos + 1]))
    /\ Len(data) >= BytesRead(ScriptSteps[pos + 1])

OffScript == [pos |-> -1, emitted |-> <<>>]

Payloads(packets) == [i \in 1..Len(packets) |-> packets[i].data]

\* script after the RDAC endpoint handled data at step st and sent packets
ScriptAfter(st, data, packets) ==
    IF Len(data) = 1 /\ st # 14
    THEN [pos |-> 0, emitted |-> Payloads(packets)]
    ELSE IF NextInScript(script.pos, data)
    THEN [pos |-> script.pos + 1, emitted |-> script.emitted \o Payloads(packets)]
    ELSE OffScript

\* repeated: the endpoint handled the very same datagram just before
Last(machine, data, address) ==
    [machine |-> machine, data |-> data, address |-> address,
     settings |-> settings, step |-> step,
     repeated |-> (/\ last.machine = machine
                   /\ last.data = data
                   /\ last.address = address)]

\* HyteraP2PProtocol.__init__ sets hytera_is_registered = False;
\* HyteraRDACProtocol.__init__ sets step = 0
Init ==
    /\ \E snmp \in BOOLEAN :
         settings = [hytera_is_registered |-> FALSE,
                     hytera_repeater_id |-> Zero,
                     hytera_callsign |-> <<>>,
                     hytera_hardware |-> <<>>,
                     hytera_firmware |-> <<>>,
                     hytera_serial_number |-> <<>>,
                     hytera_repeater_mode |-> 0,
                     hytera_tx_freq |-> Zero,
                     hytera_rx_freq |-> Zero,
                     hytera_snmp_data |-> FALSE,
                     snmp_enabled |-> snmp,
                     p2p_port |-> ConfiguredPorts.p2p_port,
                     rdac_port |-> ConfiguredPorts.rdac_port,
                     dmr_port |-> ConfiguredPorts.dmr_port]
    /\ step = 0
    /\ callbacks = 0
    /\ last = [machine |-> "none", data |-> <<>>, address |-> <<"", 0>>,
               settings |-> settings, step |-> 0, repeated |-> FALSE]
    /\ sent = <<>>
    /\ raised = FALSE
    /\ wrote = {}
    /\ parsed = "none"
    /\ regHandled = FALSE
    /\ script = OffScript

IsRegistrationRequest(data) ==
    packet_is_command(data) /\ command_get_type(data) = PACKET_TYPE_REQUEST_REGISTRATION

\* the P2P endpoint handles one datagram; found is the outcome of the SNMP walk
P2PReceive(data, address, found) ==
    LET e == P2P_datagram_received(settings, data, address, found)
    IN  /\ callbacks < MaxCallbacks
        /\ settings' = e.settings
        /\ sent' = e.sent
        /\ raised' = e.raised
        /\ wrote' = e.wrote
        /\ last' = Last("p2p", data, address)
        /\ regHandled' = (regHandled \/ IsRegistrationRequest(data))
        /\ parsed' = "none"
        /\ UNCHANGED <<step, callbacks, script>>

\* the RDAC endpoint handles one datagram
RDACReceive(data, address) ==
    LET e == RDAC_datagram_received(Self(settings, step, callbacks), data, address)
    IN  /\ callbacks < MaxCallbacks
        /\ settings' = e.settings
        /\ step' = e.step
        /\ callbacks' = e.callbacks
        /\ sent' = e.sent
        /\ raised' = e.raised
        /\ wrote' = e.wrote
        /\ last' = Last("rdac", data, address)
        /\ parsed' = "none"
        /\ script' = ScriptAfter(step, data, e.sent)
        /\ UNCHANGED regHandled

\* HyteraDMRProtocol.datagram_received: the datagram is classified and
\* printed, nothing is sent
DMRReceive(data, address) ==
    /\ callbacks < MaxCallbacks
    /\ parsed' = parse_hytera_data(data)
    /\ last' = Last("dmr", data, address)
    /\ sent' = <<>>
    /\ raised' = FALSE
    /\ wrote' = {}
    /\ UNCHANGED <<settings, step, callbacks, regHandled, script>>

\* The three endpoints side by side on one BridgeSettings.
BridgeP2P ==
    \E data \in BridgeP2PData, address \in PeerAddresses, found \in BOOLEAN :
        P2PReceive(data, address, found)

BridgeRDAC ==
    \E data \in BridgeRDACData, address \in PeerAddresses :
        RDACReceive(data, address)

BridgeDMR ==
    \E data \in BridgeDMRData, address \in PeerAddresses :
        DMRReceive(data, address)

Next == BridgeP2P \/ BridgeRDAC \/ BridgeDMR

Spec == Init /\ [][Next]_vars

\* The P2P endpoint on its own, on every datagram of P2PData.
P2PDatagramReceived ==
    \E data \in P2PData, address \in Addresses, found \in BOOLEAN :
        P2PReceive(data, address, found)

SpecP2P == Init /\ [][P2PDatagramReceived]_vars

\* The RDAC endpoint on its own, on every datagram of RDACData.
RDACDatagramReceived ==
    \E data \in RDACData, address \in PeerAddresses :
        RDACReceive(data, address)

SpecRDAC == Init /\ [][RDACDatagramReceived]_vars

\* The DMR endpoint on its own, on every datagram of DMRData.
DMRDatagramReceived ==
    \E data \in DMRData, address \in PeerAddresses :
        DMRReceive(data, address)

SpecDMR == Init /\ [][DMRDatagramReceived]_vars

----------------------------------------------------------------------------
(* Properties of the P2P endpoint, checked under SpecP2P.                  *)

LastIsP2P == last.machine = "p2p"

IsStartupRequest(data) ==
    /\ packet_is_command(data)
    /\ command_get_type(data) \in
           {PACKET_TYPE_REQUEST_RDAC_STARTUP, PACKET_TYPE_REQUEST_DMR_STARTUP}

\* the port a startup request asks to be redirected to
TargetPort(data) ==
    IF command_get_type(data) = PACKET_TYPE_REQUEST_RDAC_STARTUP
    THEN last.settings.rdac_port
    ELSE last.settings.dmr_port

\* the shape of the accept packet answering a request of n bytes
IsAcceptPacket(p, data) ==
    /\ Len(p) = Len(data) + 1
    /\ At(p, 4) = (At(data, 4) + 1) % 256
    /\ At(p, 13) = \h01
    /\ At(p, Len(p) - 1) = \h01

\* the shape of the redirect packet answering a request of n bytes
IsRedirectPacket(p, data, port) ==
    /\ Len(p) = Len(data) + 4
    /\ At(p, 4) = \h0B
    /\ At(p, 12) = \hFF
    /\ At(p, 13) = \hFF
    /\ At(p, 14) = \h01
    /\ At(p, 15) = \h00
    /\ Slice(p, Len(data), Len(data) + 2) = <<\hFF, \h01>>
    /\ Slice(p, Len(data) + 2, Len(data) + 4) = <<port % 256, port \div 256>>

AcceptOrRedirectSent ==
    \E i \in 1..Len(sent) :
        \/ IsAcceptPacket(sent[i].data, last.data)
        \/ IsRedirectPacket(sent[i].data, last.data, TargetPort(last.data))

\* C1: an accept or a redirect packet answers an RDAC-startup or DMR-startup
\* request only if hytera_is_registered was true when the request was
\* handled, and then a registration request was handled before it.
C1_StartupHonoredOnlyIfRegistered ==
    (LastIsP2P /\ IsStartupRequest(last.data) /\ AcceptOrRedirectSent)
        => (last.settings.hytera_is_registered /\ regHandled)

C1_Witness ==
    /\ LastIsP2P
    /\ IsStartupRequest(last.data)
    /\ AcceptOrRedirectSent
    /\ last.settings.hytera_is_registered

\* C2: a startup request handled while hytera_is_registered is false is
\* answered by exactly one datagram, of the one byte 0x00, to the source
\* address, and the settings are left as they were.
C2_RejectIsOneZeroByte ==
    (LastIsP2P /\ IsStartupRequest(last.data)
        /\ ~last.settings.hytera_is_registered)
        => (/\ sent = <<Packet(<<\h00>>, last.address)>>
            /\ settings = last.settings)

\* C3: every registration request is answered by exactly one packet to the
\* source address, one byte longer than the request, with byte 3 = 0x50,
\* byte 4 incremented modulo 256, bytes 13..15 = 01 01 5A and a last byte
\* 0x01, and hytera_is_registered is true afterwards.
C3_RegistrationAlwaysAnswered ==
    (LastIsP2P /\ IsRegistrationRequest(last.data))
        => (/\ settings.hytera_is_registered
            /\ Len(sent) = 1
            /\ sent[1].address = last.address
            /\ Len(sent[1].data) = Len(last.data) + 1
            /\ At(sent[1].data, 3) = \h50
            /\ At(sent[1].data, 4) = (At(last.data, 4) + 1) % 256
            /\ Slice(sent[1].data, 13, 16) = <<\h01, \h01, \h5A>>
            /\ At(sent[1].data, Len(last.data)) = \h01)

\* C4: a startup request handled while hytera_is_registered is true is
\* answered by exactly two packets, both to (source host, p2p_port): the
\* accept packet, then the redirect packet carrying rdac_port for an RDAC
\* request and dmr_port for a DMR request.
C4_AcceptThenRedirect ==
    (LastIsP2P /\ IsStartupRequest(last.data)
        /\ last.settings.hytera_is_registered)
        => (/\ Len(sent) = 2
            /\ \A i \in 1..2 :
                 sent[i].address = <<last.address[1], last.settings.p2p_port>>
            /\ IsAcceptPacket(sent[1].data, last.data)
            /\ IsRedirectPacket(sent[2].data, last.data, TargetPort(last.data)))

----------------------------------------------------------------------------
(* Properties of the RDAC endpoint, checked under SpecRDAC.                *)

LastIsRDAC == last.machine = "rdac"

\* C5: at every step 0..13 a datagram of one byte leaves the machine at
\* step 1 and sends exactly STEP0_REQUEST to the sender; the settings are
\* left as they were.
C5_OneByteResets ==
    (LastIsRDAC /\ Len(last.data) = 1 /\ last.step \in 0..13)
        => (/\ step = 1
            /\ sent = <<Packet(STEP0_REQUEST, last.address)>>
            /\ settings = last.settings)

C5_Witness ==
    /\ LastIsRDAC
    /\ Len(last.data) = 1
    /\ last.step = 4
    /\ step = 1
    /\ sent = <<Packet(STEP0_REQUEST, last.address)>>

\* C6: at step 14 the one-byte datagram 0x00 is answered by exactly the
\* one byte 0x41 to the sender, every other datagram by nothing, and the
\* step stays 14.
C6_PollAnsweredWith0x41 ==
    (LastIsRDAC /\ last.step = 14)
        => (/\ step = 14
            /\ (last.data = <<\h00>>
                  => sent = <<Packet(<<\h41>>, last.address)>>)
            /\ (last.data # <<\h00>> => sent = <<>>))

\* C7: at a step 1..13 a datagram whose length is not 1 and which does not
\* start with the response the step expects leaves the step, sends nothing
\* and leaves the settings as they were; at step 1 a datagram starting with
\* STEP0_RESPONSE moves to step 2 and sends exactly STEP1_REQUEST.
C7_MismatchDropped ==
    /\ (LastIsRDAC /\ last.step \in (1..13) \ {9} /\ Len(last.data) # 1
          /\ ~HasPrefix(last.data, ExpectedResponse(last.step)))
          => (/\ step = last.step
              /\ sent = <<>>
              /\ settings = last.settings)
    /\ (LastIsRDAC /\ last.step = 1 /\ HasPrefix(last.data, STEP0_RESPONSE))
          => (/\ step = 2
              /\ sent = <<Packet(STEP1_REQUEST, last.address)>>)

\* a datagram with the response prefix of another step arrived at step 5
C7_Witness ==
    /\ LastIsRDAC
    /\ last.step = 5
    /\ Len(last.data) > 4
    /\ ~HasPrefix(last.data, ExpectedResponse(5))
    /\ step = 5
    /\ sent = <<>>

\* C8: the step is always one of 0..14 that has a handler; it is never 9.
C8_StepHasHandler == step \in 0..14 /\ step \in StepHandlers /\ step # 9

\* step 8 has been left
C8_Witness == LastIsRDAC /\ last.step = 8 /\ step = 10

----------------------------------------------------------------------------
(* Properties of the endpoints side by side, checked under Spec.           *)

RepeaterIdWritten ==
    \/ "hytera_repeater_id" \in wrote
    \/ settings.hytera_repeater_id # last.settings.hytera_repeater_id

\* C9 as stated: hytera_is_registered is true in every state in which
\* hytera_repeater_id is written.
C9_RepeaterIdOnlyWhenRegistered ==
    RepeaterIdWritten => settings.hytera_is_registered

\* C9 as amended: hytera_repeater_id is assigned only by the RDAC endpoint,
\* when it handles a datagram starting with STEP2_RESPONSE at step 3 and
\* moves to step 4; hytera_is_registered plays no part in it.
C9_RepeaterIdOnlyByStep3 ==
    RepeaterIdWritten
        => (/\ LastIsRDAC
            /\ last.step = 3
            /\ HasPrefix(last.data, STEP2_RESPONSE)
            /\ step = 4
            /\ settings.hytera_repeater_id
                   = FromBytesLittle(Slice(last.data, 18, 21)))

\* the repeater id is written while no registration has taken place
C9_Witness ==
    /\ "hytera_repeater_id" \in wrote
    /\ settings.hytera_repeater_id # Zero
    /\ ~settings.hytera_is_registered
    /\ ~regHandled

----------------------------------------------------------------------------
(* Properties of the classifier, checked under SpecDMR.                    *)

LastIsDMR == last.machine = "dmr"

\* C10: a datagram shorter than 2 bytes is classified as heartbeat, and a
\* datagram starting with 0x32,0x42 as HSTRP whatever follows.
C10_HeartbeatAndHstrpFirst ==
    /\ (LastIsDMR /\ Len(last.data) < 2) => parsed = "IpSiteConnectHeartbeat"
    /\ (LastIsDMR /\ Len(last.data) >= 2
          /\ At(last.data, 0) = \h32 /\ At(last.data, 1) = \h42)
          => parsed = "HyteraSimpleTransportReliabilityProtocol"

\* an HSTRP datagram that rule 5 would match as well
C10_Witness ==
    /\ LastIsDMR
    /\ Slice(last.data, 0, 2) = <<\h32, \h42>>
    /\ Slice(last.data, 20, 22) = <<\h11, \h11>>
    /\ Slice(last.data, 5, 9) = <<\h00, \h00, \h00, \h14>>
    /\ parsed = "HyteraSimpleTransportReliabilityProtocol"

----------------------------------------------------------------------------
(* Further properties of the classifier, checked under SpecDMR.            *)

AllZero(data) == \A i \in 1..Len(data) : data[i] = 0

\* C11: a datagram too short for the 8-byte slice of rule 5 does not match
\* that clause: an all-zero datagram of 2 to 7 bytes is classified HDAP.
C11_ShortZeroIsHdap ==
    (LastIsDMR /\ Len(last.data) \in 2..7 /\ AllZero(last.data))
        => parsed = "HyteraDmrApplicationProtocol"

\* C17: a datagram of at least 2 bytes that matches neither rule 2 nor
\* rule 3 and whose first byte has the top two bits 10 is classified RTP.
C17_RtpReachable ==
    (LastIsDMR /\ Len(last.data) >= 2
        /\ Slice(last.data, 0, 2) # <<\h32, \h42>>
        /\ At(last.data, 0) # \h7E
        /\ BitAnd(At(last.data, 0), \hC0) = \h80)
        => parsed = "RealTimeTransportProtocol"

----------------------------------------------------------------------------
(* Further properties of the P2P endpoint, checked under SpecP2P.          *)

IsPing(data) == ~packet_is_command(data) /\ packet_is_ping(data)

\* C12: after registration every ping is answered by exactly one packet to
\* the source address that equals the ping except for byte 12 = 0xFF and
\* byte 14 = 0x01, and the settings are left as they were.
C12_PingEchoed ==
    (LastIsP2P /\ IsPing(last.data) /\ last.settings.hytera_is_registered)
        => (/\ Len(sent) = 1
            /\ sent[1].address = last.address
            /\ Len(sent[1].data) = Len(last.data)
            /\ \A i \in 0..(Len(last.data) - 1) :
                 At(sent[1].data, i) =
                     IF i = 12 THEN \hFF
                     ELSE IF i = 14 THEN \h01
                     ELSE At(last.data, i)
            /\ settings = last.settings)

\* C14: the P2P endpoint's datagram_received never ends in an exception.
C14_P2PNeverRaises == LastIsP2P => ~raised

----------------------------------------------------------------------------
(* Further properties of the RDAC endpoint, checked under SpecRDAC.        *)

\* the step a matching response leads to
NextStep(n) == IF n = 8 THEN 10 ELSE IF n = 14 THEN 14 ELSE n + 1

\* C13: at a step 1..13 every datagram of a length other than 1 that starts
\* with the response the step expects advances the step, whatever its
\* length and payload.
C13_MatchAlwaysAdvances ==
    (LastIsRDAC /\ last.step \in (1..13) \ {9} /\ Len(last.data) # 1
        /\ HasPrefix(last.data, ExpectedResponse(last.step)))
        => step = NextStep(last.step)

\* C15: the step never decreases from one handled datagram to the next,
\* except for a datagram of one byte handled at a step other than 14, which
\* leaves it at 1.
C15_StepMonotonic ==
    (LastIsRDAC /\ step < last.step)
        => (Len(last.data) = 1 /\ last.step # 14 /\ step = 1)

\* a datagram of one byte took the machine from step 13 back to step 1
C15_Witness ==
    /\ LastIsRDAC
    /\ Len(last.data) = 1
    /\ last.step = 13
    /\ step = 1

\* C19: nothing changes the step once it is 14, and the completion callback
\* is scheduled at most once, on the way from step 13 to step 14.
C19_Step14Absorbing ==
    /\ (LastIsRDAC /\ last.step = 14) => step = 14
    /\ callbacks = (IF step = 14 THEN 1 ELSE 0)

\* a datagram of one byte was handled at step 14
C19_Witness ==
    /\ LastIsRDAC
    /\ last.step = 14
    /\ Len(last.data) = 1
    /\ step = 14
    /\ callbacks = 1

----------------------------------------------------------------------------
(* Single writers, checked under Spec.                                     *)

Written(field) == field \in wrote \/ settings[field] # last.settings[field]

\* C16: hytera_is_registered is written only by the P2P endpoint's
\* registration handling, hytera_repeater_id only on the way from step 3 to
\* step 4, the four text fields only on the way from step 6 to step 7, and
\* mode and frequencies only on the way from step 10 to step 11.
C16_SingleWriters ==
    /\ Written("hytera_is_registered")
          => (LastIsP2P /\ IsRegistrationRequest(last.data))
    /\ Written("hytera_repeater_id")
          => (LastIsRDAC /\ last.step = 3 /\ step = 4)
    /\ (\E f \in {"hytera_callsign", "hytera_hardware", "hytera_firmware",
                  "hytera_serial_number"} : Written(f))
          => (LastIsRDAC /\ last.step = 6 /\ step = 7)
    /\ (\E f \in {"hytera_repeater_mode", "hytera_tx_freq", "hytera_rx_freq"} :
            Written(f))
          => (LastIsRDAC /\ last.step = 10 /\ step = 11)

----------------------------------------------------------------------------
(* Recovery and duplicates at the RDAC endpoint, checked under SpecRDAC.   *)

HandshakeRequests ==
    << STEP0_REQUEST, STEP1_REQUEST, STEP3_REQUEST, STEP4_REQUEST_1,
       STEP4_REQUEST_2, STEP6_REQUEST_1, STEP6_REQUEST_2, STEP7_REQUEST,
       STEP10_REQUEST, STEP12_REQUEST_1, STEP12_REQUEST_2 >>

\* C18: after a datagram of one byte handled outside step 14 and then the
\* responses of steps 1..8 and 10..13 in order, each long enough for the
\* fields extracted from it, the machine is at step 14 and has sent
\* exactly the requests of the handshake in their order.
C18_ResetThenScriptCompletes ==
    script.pos = Len(ScriptSteps)
        => (step = 14 /\ script.emitted = HandshakeRequests)

\* C20: a datagram starting with STEP2_RESPONSE, which is STEP3_RESPONSE,
\* takes the machine from step 3 to step 4 and sends STEP3_REQUEST; the same
\* datagram handled again right after takes it to step 5 and sends
\* STEP4_REQUEST_1 and STEP4_REQUEST_2; no datagram advances the machine by
\* more than one step.
C20_DuplicateAdvancesTwice ==
    /\ STEP2_RESPONSE = STEP3_RESPONSE
    /\ (LastIsRDAC /\ last.step = 3 /\ HasPrefix(last.data, STEP2_RESPONSE))
          => (/\ step = 4
              /\ sent = <<Packet(STEP3_REQUEST, last.address)>>)
    /\ (LastIsRDAC /\ last.repeated /\ last.step = 4
          /\ HasPrefix(last.data, STEP2_RESPONSE))
          => (/\ step = 5
              /\ sent = <<Packet(STEP4_REQUEST_1, last.address),
                          Packet(STEP4_REQUEST_2, last.address)>>)
    /\ (LastIsRDAC /\ Len(last.data) # 1)
          => step \in {last.step, NextStep(last.step)}

\* the datagram that took the machine to step 4 was handled a second time
C20_Witness ==
    /\ LastIsRDAC
    /\ last.repeated
    /\ last.step = 4
    /\ HasPrefix(last.data, STEP2_RESPONSE)
    /\ step = 5
    /\ Len(sent) = 2

====
